---------------------------- MODULE Spec2Model ----------------------------
(***************************************************************************)
(* go-excel-service: the record-to-spreadsheet export of the repository's  *)
(* program variants.                                                        *)
(*                                                                          *)
(*   "main"     src/main.go              tealeg/xlsx, getFieldTags/addRows  *)
(*   "excelize" src/unnamed/part_001:1   excelize, hard-coded records       *)
(*   "netflix"  src/unnamed/part_001:289 tealeg/xlsx, initFieldMetadata     *)
(*   "api"      src/unnamed/part_002:1   excelize, records from a remote    *)
(*                                       API, required query parameter      *)
(*                                                                          *)
(* A record type is the sequence of its reflect.StructField's; a record    *)
(* value mirrors the type.  The handlers instantiate the generic functions *)
(* (getFieldTags, addRows[T], getHeaders[T], getRows[T]) at Salary and     *)
(* DATA; the model draws the type from RecordTypes, which holds Salary and *)
(* EmployeeSalary as declared and every small type over FieldChoices.      *)
(***************************************************************************)
EXTENDS Integers, Sequences, FiniteSets, TLC

\* ------------------------------------------------------------------ bounds
MaxFields == 3      \* declared fields of a generated record type
MaxRecords == 2     \* records the data source returns
MaxSeed == 2        \* distinct record contents
MaxWorkers == 3     \* records handed to addRowsWithGorutines

\* ---------------------------------------------------------- program constants
StatusOK == 200
StatusBadRequest == 400
StatusInternalServerError == 500

\* ------------------------------------------------------------ record types
\* reflect.StructField: Name, exported (PkgPath == ""), Tag, Type.Kind(),
\* Anonymous, and the fields of a struct-kind type.
NoTag == [xlsx |-> "", json |-> ""]

Scalar(name, kind, xlsx, json) ==
    [name |-> name, exported |-> TRUE, tag |-> [xlsx |-> xlsx, json |-> json],
     kind |-> kind, anon |-> FALSE, fields |-> <<>>]

Unexported(name, kind) ==
    [name |-> name, exported |-> FALSE, tag |-> NoTag,
     kind |-> kind, anon |-> FALSE, fields |-> <<>>]

\* time.Time is a struct of three unexported fields (wall, ext, loc).
TimeFields ==
    << Unexported("wall", "uint64"), Unexported("ext", "int64"),
       Unexported("loc", "ptr") >>

TimeField(name, xlsx, json) ==
    [name |-> name, exported |-> TRUE, tag |-> [xlsx |-> xlsx, json |-> json],
     kind |-> "struct", anon |-> FALSE, fields |-> TimeFields]

\* An embedded (anonymous) struct field: its name is the type's name.
Embedded(name, fields) ==
    [name |-> name, exported |-> TRUE, tag |-> NoTag,
     kind |-> "struct", anon |-> TRUE, fields |-> fields]

Salary ==
    << Scalar("EmployeeId", "int", "Employee ID", ""),
       Scalar("Amount", "float32", "Amount", ""),
       TimeField("FromDate", "From Date", ""),
       TimeField("ToDate", "To Date", "") >>

Title ==
    << Scalar("EmployeeId", "int", "Employee ID", ""),
       Scalar("Title", "string", "Title", ""),
       TimeField("FromDate", "From Date", ""),
       TimeField("ToDate", "To Date", "") >>

Employee ==
    << Scalar("Id", "int", "ID", ""),
       TimeField("BirthDate", "Birth Date", ""),
       Scalar("FirstName", "string", "First Name", ""),
       Scalar("LastName", "string", "Last Name", ""),
       Scalar("Gender", "string", "Gender", ""),
       TimeField("HireDate", "Hire Date", "") >>

EmployeeSalary ==
    << Embedded("Employee", Employee), Embedded("Salary", Salary),
       Embedded("Title", Title) >>

NetflixShow ==
    << Scalar("ShowID", "string", "Id", ""),
       Scalar("Type", "string", "Type", ""),
       Scalar("Title", "string", "Title", ""),
       Scalar("Director", "string", "Director", ""),
       Scalar("CastMembers", "string", "Cast Members", ""),
       Scalar("Country", "string", "Country", ""),
       TimeField("DateAdded", "Date Added", ""),
       Scalar("ReleaseYear", "int", "Release Year", ""),
       Scalar("Rating", "string", "Rating", ""),
       Scalar("Duration", "string", "Duration", ""),
       Scalar("ListedIn", "string", "Listed In", ""),
       Scalar("Description", "string", "Description", "") >>

DATA ==
    << Scalar("ConvocatoriaID", "int", "Convocatoria ID", "convocatoria_id"),
       Scalar("CodigoSolicitud", "string", "Codigo Solicitud", "codigo_solicitud"),
       Scalar("Nombres", "string", "Nombres", "nombres"),
       Scalar("Apellidos", "string", "Apellidos", "apellidos"),
       Scalar("Identificacion", "string", "Identificacion", "identificacion"),
       Scalar("Email", "string", "Email", "email"),
       Scalar("Telefono", "string", "Telefono", "telefono"),
       Scalar("Institucion", "string", "Institucion", "institucion"),
       Scalar("Edad", "int", "Edad", "edad"),
       Scalar("FechaNacimiento", "string", "Fecha Nacimiento", "fecha_nacimiento"),
       Scalar("Genero", "string", "Genero", "genero"),
       Scalar("Direccion", "string", "Direccion", "direccion"),
       Scalar("Municipio", "string", "Municipio", "municipio"),
       Scalar("ProvinciaNombre", "string", "Provincia", "provincia_nombre"),
       Scalar("CampusNombre", "string", "Campus", "campus_nombre"),
       Scalar("CarreraNombre", "string", "Carrera", "carrera_nombre"),
       Scalar("AreaCarrera", "string", "Area Carrera", "area_carrera"),
       Scalar("GradoNombre", "string", "Grado", "grado_nombre"),
       Scalar("PaisNombre", "string", "Pais", "pais_nombre"),
       Scalar("Modalidad", "string", "Modalidad", "modalidad"),
       Scalar("EstadoNombre", "string", "Estado", "estado_nombre"),
       Scalar("Puntaje", "int", "Puntaje", "puntaje"),
       Scalar("Comentario", "string", "Comentario", "comentario") >>

\* The fields a generated type is made of: tagged and untagged scalars, a
\* timestamp, and embedded sub-records (one of them embedding a further one).
Inner == << Scalar("Code", "string", "Code", "code"),
            Scalar("Note", "string", "", "") >>

Outer == << Scalar("Rank", "int", "Rank", "rank"), Embedded("Inner", Inner) >>

FieldChoices ==
    { Scalar("Id", "int", "ID", "id"),
      Scalar("Name", "string", "", ""),
      TimeField("At", "At", "at"),
      Embedded("Inner", Inner),
      Embedded("Outer", Outer) }

\* The sequences of at most n distinct elements of S (Go rejects a struct that
\* declares a field name twice).
RECURSIVE SeqsUpTo(_, _)
SeqsUpTo(S, n) ==
    IF n = 0 THEN {<<>>}
    ELSE LET shorter == SeqsUpTo(S, n - 1)
         IN  shorter \cup
             UNION {{Append(s, x) : x \in {y \in S : \A i \in 1..Len(s) : s[i] # y}}
                    : s \in shorter}

\* The sequences of at most n elements of S.
RECURSIVE SeqsOf(_, _)
SeqsOf(S, n) ==
    IF n = 0 THEN {<<>>}
    ELSE LET shorter == SeqsOf(S, n - 1)
         IN  shorter \cup {Append(q, x) : q \in shorter, x \in S}

RecordTypes ==
    (SeqsUpTo(FieldChoices, MaxFields) \ {<<>>})
        \cup {Salary, EmployeeSalary, NetflixShow, DATA}

\* ----------------------------------------------------------- record values
\* A reflect.Value: its Kind, its scalar content v, and the values of a
\* struct's fields.  A record built from seed n holds n in every scalar.
RECURSIVE StructValue(_, _)
StructValue(t, n) ==
    [kind |-> "struct", v |-> 0,
     sub |-> [i \in 1..Len(t) |->
                IF t[i].kind = "struct" THEN StructValue(t[i].fields, n)
                ELSE [kind |-> t[i].kind, v |-> n, sub |-> <<>>]]]

\* A nil *T element: reflect.ValueOf(item).Elem() is the zero Value.
NilPointer == [kind |-> "nilptr", v |-> 0, sub |-> <<>>]

\* The element values a slice may hold: structs, and nil when T is a pointer.
Elements(t, ptr) ==
    {StructValue(t, n) : n \in 1..MaxSeed} \cup (IF ptr THEN {NilPointer} ELSE {})

RECURSIVE Concat(_)
Concat(ss) == IF ss = <<>> THEN <<>> ELSE Head(ss) \o Concat(Tail(ss))

\* reflect.Value.IsValid: false only of the zero Value.
IsValid(x) == x.kind # "nilptr"

\* reflect.Value.CanInterface: false of a value reached through an unexported
\* field.
CanInterface(f) == f.exported

\* fmt.Sprintf("%v", x) as a sequence of tokens: a scalar prints its content
\* (1, 1.0 and "1" all print 1), a time.Time prints through String(), any
\* other struct prints its fields between braces.
LBrace == 0 - 1
RBrace == 0 - 2
TimeLayout == 0 - 3

RECURSIVE Sprintf(_, _)
Sprintf(f, x) ==
    IF f.kind # "struct" THEN <<x.v>>
    ELSE IF f.fields = TimeFields THEN <<TimeLayout, x.sub[1].v>>
    ELSE <<LBrace>>
         \o Concat([i \in 1..Len(f.fields) |-> Sprintf(f.fields[i], x.sub[i])])
         \o <<RBrace>>

\* A tealeg/xlsx cell: cell.Value is a string.  A header cell holds the tag,
\* a data cell the formatted value.
HeaderCell(tag) == [kind |-> "string", of |-> "header", text |-> <<>>, tag |-> tag]
StringCell(text) == [kind |-> "string", of |-> "data", text |-> text, tag |-> ""]

\* ------------------------------------------------------- schema extraction
\* main.go getFieldTags: an embedded struct is flattened recursively, any
\* other field contributes its tag unless the tag is empty.  (TypeOf(model)
\* is nil only for an untyped nil, which no caller passes.)
RECURSIVE getFieldTags(_, _)
getFieldTags(t, tagName) ==
    Concat([i \in 1..Len(t) |->
              IF t[i].kind = "struct" /\ t[i].anon
              THEN getFieldTags(t[i].fields, tagName)
              ELSE IF t[i].tag[tagName] # "" THEN <<t[i].tag[tagName]>>
                   ELSE <<>>])

\* part_001 getHeaders: as getFieldTags, but every field contributes its
\* "xlsx" tag, empty or not.
RECURSIVE getHeadersXlsx(_)
getHeadersXlsx(t) ==
    Concat([i \in 1..Len(t) |->
              IF t[i].kind = "struct" /\ t[i].anon
              THEN getHeadersXlsx(t[i].fields)
              ELSE <<t[i].tag["xlsx"]>>])

\* part_002 getHeaders: the same over the "json" tag.
RECURSIVE getHeaders(_)
getHeaders(t) ==
    Concat([i \in 1..Len(t) |->
              IF t[i].kind = "struct" /\ t[i].anon
              THEN getHeaders(t[i].fields)
              ELSE <<t[i].tag["json"]>>])

\* part_001 initFieldMetadata: one header per field of NetflixShow, the tag
\* or, when it is empty, the field's name; not recursive.
initFieldMetadata(t) ==
    [i \in 1..Len(t) |->
        IF t[i].tag["xlsx"] # "" THEN t[i].tag["xlsx"] ELSE t[i].name]

\* ------------------------------------------------------------- projection
NoError == [kind |-> "nil", msg |-> "", args |-> <<>>]
Errorf(msg, args) == [kind |-> "error", msg |-> msg, args |-> args]
Panic(msg) == [kind |-> "panic", msg |-> msg, args |-> <<>>]

\* main.go addRows, the cells of one field: a struct-kind field (embedded or
\* not, time.Time included) is entered one level and each of its fields that
\* can be interfaced gives a cell; any other field gives one cell.
FieldCells(f, x) ==
    IF f.kind = "struct" /\ CanInterface(f)
    THEN Concat([j \in 1..Len(f.fields) |->
                   IF CanInterface(f.fields[j])
                   THEN <<StringCell(Sprintf(f.fields[j], x.sub[j]))>>
                   ELSE <<>>])
    ELSE IF CanInterface(f) THEN <<StringCell(Sprintf(f, x))>> ELSE <<>>

\* The fields of v before the first invalid one (all of them when none is).
ValidPrefix(x) ==
    LET bad == {i \in 1..Len(x.sub) : ~IsValid(x.sub[i])}
    IN  IF bad = {} THEN Len(x.sub)
        ELSE (CHOOSE i \in bad : \A j \in bad : i <= j) - 1

\* main.go addRows from item k on: sheet.AddRow() appends the row before its
\* cells are made; NumField on the zero Value of a nil pointer panics; an
\* invalid field returns the error, the rows made so far staying in the sheet.
RECURSIVE addRowsFrom(_, _, _, _)
addRowsFrom(sheet, t, data, k) ==
    IF k > Len(data) THEN [sheet |-> sheet, err |-> NoError]
    ELSE LET item == data[k]
         IN  IF ~IsValid(item)
             THEN [sheet |-> Append(sheet, <<>>),
                   err |-> Panic("reflect: call of reflect.Value.NumField on zero Value")]
             ELSE LET n == ValidPrefix(item)
                      row == Concat([i \in 1..n |-> FieldCells(t[i], item.sub[i])])
                  IN  IF n < Len(item.sub)
                      THEN [sheet |-> Append(sheet, row),
                            err |-> Errorf("invalid field at position %d", <<n>>)]
                      ELSE addRowsFrom(Append(sheet, row), t, data, k + 1)

addRows(sheet, t, data) == addRowsFrom(sheet, t, data, 1)

\* main.go / part_001 addHeaders: one row of one cell per tag.
addHeaders(sheet, tags) ==
    Append(sheet, [i \in 1..Len(tags) |-> HeaderCell(tags[i])])

\* part_001 (netflix) addRows: one cell per field of the show, formatted;
\* Interface() panics on an unexported field.
RECURSIVE addShowsFrom(_, _, _, _)
addShowsFrom(sheet, t, shows, k) ==
    IF k > Len(shows) THEN [sheet |-> sheet, err |-> NoError]
    ELSE IF \E i \in 1..Len(t) : ~CanInterface(t[i])
    THEN [sheet |-> Append(sheet, <<>>),
          err |-> Panic("reflect.Value.Interface: unexported field")]
    ELSE addShowsFrom(
             Append(sheet, [i \in 1..Len(t) |->
                              StringCell(Sprintf(t[i], shows[k].sub[i]))]),
             t, shows, k + 1)

addShows(sheet, t, shows) == addShowsFrom(sheet, t, shows, 1)

\* part_001 / part_002 getRows: one value per top-level field, as it is
\* (field.Interface()); nothing is flattened.
RECURSIVE getRowsFrom(_, _, _, _)
getRowsFrom(rows, t, data, k) ==
    IF k > Len(data) THEN [rows |-> rows, err |-> NoError]
    ELSE LET item == data[k]
         IN  IF ~IsValid(item)
             THEN [rows |-> <<>>,
                   err |-> Panic("reflect: call of reflect.Value.NumField on zero Value")]
             ELSE LET bad == {i \in 1..Len(t) :
                                 ~IsValid(item.sub[i]) \/ ~CanInterface(t[i])}
                      first == CHOOSE i \in bad : \A j \in bad : i <= j
                  IN  IF bad = {}
                      THEN getRowsFrom(Append(rows, item.sub), t, data, k + 1)
                      ELSE IF ~IsValid(item.sub[first])
                      THEN [rows |-> <<>>,
                            err |-> Errorf("invalid field at position %d",
                                           <<first - 1>>)]
                      ELSE [rows |-> <<>>,
                            err |-> Panic("reflect.Value.Interface: unexported field")]

getRows(t, data) == getRowsFrom(<<>>, t, data, 1)

\* excelize SetSheetRow(sheet, "A<r>", &row): row r of the sheet becomes row.
SetSheetRow(sheet, r, row) ==
    [i \in 1..(IF r > Len(sheet) THEN r ELSE Len(sheet)) |->
        IF i = r THEN row ELSE IF i <= Len(sheet) THEN sheet[i] ELSE <<>>]

\* The rows at A(i+2), i = 0, 1, ...: `for i, row := range rows`.
RECURSIVE SetRows(_, _, _)
SetRows(sheet, rows, k) ==
    IF k > Len(rows) THEN sheet
    ELSE SetRows(SetSheetRow(sheet, (k - 1) + 2, rows[k]), rows, k + 1)

\* ---------------------------------------------------------------- response
\* http.ResponseWriter: the status sent (0 while none is), and what was
\* written to the body.  The first WriteHeader or Write fixes the status.
NoResponse == [status |-> 0, body |-> <<>>]

Write(w, chunk) ==
    [status |-> IF w.status = 0 THEN StatusOK ELSE w.status,
     body |-> Append(w.body, chunk)]

\* handleError: http.Error(w, message, code) is WriteHeader(code), ignored
\* once a status is sent, and the message written to the body.
handleError(w, code) ==
    [status |-> IF w.status = 0 THEN code ELSE w.status,
     body |-> Append(w.body, "message")]

\* net/http when the handler returns having written nothing: 200, no body.
Finish(w) == [w EXCEPT !.status = IF w.status = 0 THEN StatusOK ELSE w.status]

\* ------------------------------------------------------------------- state
VARIABLES
    prog,       \* the program variant that runs, or the function called
    pc,         \* where the handler is
    T,          \* the record type exported
    ptr,        \* whether the slice's element type is a pointer to T
    param,      \* whether the request carries convocationId
    source,     \* the records the data source holds
    data,       \* the records fetched
    tags,       \* the header names (tags / headers / excelHeaders)
    sheet,      \* the sink: the rows of the sheet, in order
    err,        \* the error or panic the projection ended with
    w,          \* the response
    calls,      \* how often handleError ran
    failure,    \* what failed in this request: none, param, fetch, ...
    fetched,    \* whether a fetch was attempted
    aborted,    \* whether a panic ended the handler (net/http drops the connection)
    buf,        \* main.go bufferPool: how often the request did Get and Put
    env,        \* DATABASE_URL: unset, unreachable, good
    db,         \* the global database handle: nil or open
    timedOut,   \* whether the fetch ran past its deadline
    cancelled,  \* whether the client went away during the fetch
    gpc,        \* addRowsWithGorutines: where the calling goroutine is
    wpc,        \* addRowsWithGorutines: where each worker is
    snap,       \* each worker's read of sheet.Rows inside AddRow
    sheetRows,  \* sheet.Rows of addRowsWithGorutines: the rows' workers
    rowCells,   \* the cells each worker's row holds
    wg          \* the WaitGroup's counter

vars == << prog, pc, T, ptr, param, source, data, tags, sheet, err, w, calls,
           failure, fetched, aborted, buf, env, db, timedOut, cancelled,
           gpc, wpc, snap, sheetRows, rowCells, wg >>

goVars == << gpc, wpc, snap, sheetRows, rowCells, wg >>

Handlers == {"main", "excelize", "netflix", "api"}
Calls == {"call_addRows", "call_downloadFile"}

\* The slices of at most MaxRecords elements of T.
Slices(t, p) == SeqsOf(Elements(t, p), MaxRecords)

\* part_001 handler: the three hard-coded salaries.
HardCoded == << StructValue(Salary, 1), StructValue(Salary, 2), StructValue(Salary, 3) >>

\* A request that has taken no buffer from bufferPool.
NoBuffer == [got |-> 0, put |-> 0]

GoIdle ==
    /\ gpc = "idle"
    /\ wpc = <<>>
    /\ snap = <<>>
    /\ sheetRows = <<>>
    /\ rowCells = <<>>
    /\ wg = 0

Init ==
    /\ prog \in Handlers \cup Calls
    /\ T \in RecordTypes
    /\ ptr \in BOOLEAN
    /\ param \in BOOLEAN
    /\ source \in Slices(T, ptr)
    /\ env \in IF prog \in Handlers THEN {"unset", "unreachable", "good"} ELSE {"good"}
    /\ db = "nil"
    /\ timedOut = FALSE
    /\ cancelled = FALSE
    /\ CASE prog = "main" -> T = Salary /\ ~ptr /\ param
         [] prog = "netflix" -> T = NetflixShow /\ ~ptr /\ param
         [] prog = "api" -> T = DATA /\ ~ptr
         [] prog = "excelize" -> T = Salary /\ ~ptr /\ param /\ source = <<>>
         [] OTHER -> param
    /\ data = IF prog = "excelize" THEN HardCoded
              ELSE IF prog \in Calls THEN source ELSE <<>>
    /\ pc = CASE prog \in Handlers -> "init"
              [] prog = "call_addRows" -> "headers"
              [] OTHER -> "download"
    /\ tags = <<>>
    /\ sheet = <<>>
    /\ err = NoError
    /\ w = NoResponse
    /\ calls = 0
    /\ failure = "none"
    /\ fetched = FALSE
    /\ aborted = FALSE
    /\ buf = NoBuffer
    /\ GoIdle

\* ----------------------------------------------------------------- actions
constVars == << prog, T, ptr, param, source, env >>
onceVars == << db, timedOut, cancelled >>

\* setupDatabase: DATABASE_URL must be set, gorm.Open must connect.
setupDatabase(e) ==
    CASE e = "unset" ->
             [db |-> "nil",
              err |-> Errorf("DATABASE_URL environment variable is required", <<>>)]
      [] e = "unreachable" ->
             [db |-> "nil", err |-> Errorf("error connecting to database: %w", <<>>)]
      [] OTHER -> [db |-> "open", err |-> NoError]

\* init(): main.go and part_001 (netflix) call setupDatabase and end the
\* process with log.Fatalf on its error (netflix then runs
\* initFieldMetadata); in part_001's first program the call is commented
\* out and db stays nil; part_002 has no database.
Startup ==
    /\ prog \in Handlers /\ pc = "init"
    /\ IF prog \in {"main", "netflix"}
       THEN LET r == setupDatabase(env)
            IN  IF r.err.kind = "error"
                THEN /\ pc' = "fatal"
                     /\ UNCHANGED << db, tags >>
                ELSE /\ db' = r.db
                     /\ tags' = IF prog = "netflix"
                                THEN initFieldMetadata(NetflixShow) ELSE tags
                     /\ pc' = "serving"
       ELSE /\ pc' = "serving"
            /\ UNCHANGED << db, tags >>
    /\ UNCHANGED << data, sheet, err, w, calls, failure, fetched, aborted, buf >>
    /\ UNCHANGED << constVars, goVars, timedOut, cancelled >>

\* main(): the handler is registered, server.ListenAndServe() accepts a
\* request for /download and the handler starts.
Serve ==
    /\ prog \in Handlers /\ pc = "serving"
    /\ pc' = CASE prog \in {"main", "netflix"} -> "fetch"
               [] prog = "api" -> "param"
               [] OTHER -> "download"
    /\ UNCHANGED << data, tags, sheet, err, w, calls, failure, fetched, aborted, buf >>
    /\ UNCHANGED << constVars, goVars, onceVars >>

\* A handler whose Put is not deferred, and so is skipped on return.
PutSkipped(b) == b

\* main.go bufferPool as one request sees it: Get hands it a buffer, Put
\* gives one back.
Get(b) == [b EXCEPT !.got = @ + 1]
Put(b) == [b EXCEPT !.put = @ + 1]

\* part_002 handler: a request without convocationId is answered 400.
CheckParam ==
    /\ prog = "api" /\ pc = "param"
    /\ IF ~param
       THEN /\ w' = Finish(handleError(w, StatusBadRequest))
            /\ calls' = calls + 1
            /\ failure' = "param"
            /\ pc' = "done"
       ELSE /\ pc' = "fetch"
            /\ UNCHANGED << w, calls, failure >>
    /\ UNCHANGED << data, tags, sheet, err, fetched, aborted, buf >>
    /\ UNCHANGED << constVars, goVars, onceVars >>

\* Whether the client's going away ends the fetch: main.go and part_001
\* (netflix) derive ctx from r.Context(); part_002 getData builds its request
\* with http.NewRequest, which carries no context of the incoming request.
Aborts(gone) == gone /\ prog \in {"main", "netflix"}

\* main.go / part_001 (netflix) handler: db.WithContext(ctx).Find under
\* context.WithTimeout(r.Context(), ...), and part_002 getData under
\* http.Client{Timeout}: the fetch returns the source's records, or fails
\* (the query or the upstream answer, the deadline, the cancelled context).
Fetch ==
    /\ prog \in {"main", "netflix", "api"} /\ pc = "fetch"
    /\ fetched' = TRUE
    /\ \E out \in {"ok", "error", "timeout"}, gone \in BOOLEAN :
         /\ cancelled' = gone
         /\ timedOut' = (out = "timeout")
         /\ IF out = "ok" /\ ~Aborts(gone)
            THEN /\ data' = source
                 /\ pc' = IF prog = "api" THEN "download" ELSE "headers"
                 /\ UNCHANGED << w, calls, failure >>
            ELSE /\ w' = Finish(handleError(w, StatusInternalServerError))
                 /\ calls' = calls + 1
                 /\ failure' = "fetch"
                 /\ pc' = "done"
                 /\ UNCHANGED data
    /\ UNCHANGED << tags, sheet, err, aborted, buf >>
    /\ UNCHANGED << constVars, goVars, db >>

\* main.go handler: file.AddSheet("Salaries") (a fresh file takes the name),
\* getFieldTags(Salary{}, "xlsx"), addHeaders.
Headers ==
    /\ prog \in {"main", "call_addRows"} /\ pc = "headers"
    /\ tags' = getFieldTags(T, "xlsx")
    /\ sheet' = addHeaders(sheet, tags')
    /\ pc' = "rows"
    /\ UNCHANGED << data, err, w, calls, failure, fetched, aborted, buf >>
    /\ UNCHANGED << constVars, goVars, onceVars >>

\* main.go handler: addRows(sheet, salaries); its error is answered 500, a
\* panic unwinds the handler and net/http drops the connection.
Rows ==
    /\ prog \in {"main", "call_addRows"} /\ pc = "rows"
    /\ LET r == addRows(sheet, T, data)
       IN  /\ sheet' = r.sheet
           /\ err' = r.err
           /\ CASE r.err.kind = "error" ->
                     /\ w' = Finish(handleError(w, StatusInternalServerError))
                     /\ calls' = calls + 1
                     /\ failure' = "projection"
                     /\ pc' = "done"
                     /\ UNCHANGED aborted
                [] r.err.kind = "panic" ->
                     /\ aborted' = TRUE
                     /\ failure' = "projection"
                     /\ pc' = "done"
                     /\ UNCHANGED << w, calls >>
                [] OTHER ->
                     /\ pc' = IF prog = "main" THEN "write" ELSE "done"
                     /\ UNCHANGED << w, calls, failure, aborted >>
    /\ UNCHANGED << data, tags, fetched, buf >>
    /\ UNCHANGED << constVars, goVars, onceVars >>

\* main.go handler: a buffer is taken from the pool (its Put deferred) and
\* file.Write(buf) fills it; its error is answered 500.
WriteBuffer ==
    /\ prog = "main" /\ pc = "write"
    /\ \E ok \in BOOLEAN :
         IF ok
         THEN /\ buf' = Get(buf)
              /\ pc' = "send"
              /\ UNCHANGED << w, calls, failure >>
         ELSE /\ buf' = Put(Get(buf))
              /\ w' = Finish(handleError(w, StatusInternalServerError))
              /\ calls' = calls + 1
              /\ failure' = "serialize"
              /\ pc' = "done"
    /\ UNCHANGED << data, tags, sheet, err, fetched, aborted >>
    /\ UNCHANGED << constVars, goVars, onceVars >>

\* main.go handler: buf.WriteTo(w); an error is only logged.  The deferred
\* Put returns the buffer.
Send ==
    /\ prog = "main" /\ pc = "send"
    /\ \E ok \in BOOLEAN :
         IF ok
         THEN /\ w' = Write(w, "xlsx")
              /\ UNCHANGED failure
         ELSE /\ w' = Write(w, "truncated")
              /\ failure' = "send"
    /\ buf' = Put(buf)
    /\ pc' = "done"
    /\ UNCHANGED << data, tags, sheet, err, calls, fetched, aborted >>
    /\ UNCHANGED << constVars, goVars, onceVars >>

\* part_001 (netflix) handler after the fetch: AddSheet, addHeaders(sheet,
\* excelHeaders), addRows(sheet, shows), then file.Write(w), whose error is
\* answered through handleError: a marshalling error before any byte, a
\* write error after some.
Netflix ==
    /\ prog = "netflix" /\ pc = "headers"
    /\ LET r == addShows(addHeaders(sheet, tags), T, data)
       IN  /\ sheet' = r.sheet
           /\ err' = r.err
           /\ IF r.err.kind = "panic"
              THEN /\ aborted' = TRUE
                   /\ failure' = "projection"
                   /\ UNCHANGED << w, calls >>
              ELSE /\ UNCHANGED aborted
                   /\ \E out \in {"ok", "marshal", "conn"} :
                        CASE out = "ok" ->
                               /\ w' = Write(w, "xlsx")
                               /\ UNCHANGED << calls, failure >>
                          [] out = "marshal" ->
                               /\ w' = handleError(w, StatusInternalServerError)
                               /\ calls' = calls + 1
                               /\ failure' = "serialize"
                          [] OTHER ->
                               /\ w' = handleError(Write(w, "truncated"),
                                                   StatusInternalServerError)
                               /\ calls' = calls + 1
                               /\ failure' = "send"
    /\ pc' = "done"
    /\ UNCHANGED << data, tags, fetched, buf >>
    /\ UNCHANGED << constVars, goVars, onceVars >>

\* part_001 / part_002 downloadFile and the handler's answer to its error:
\* NewSheet("Sheet1") (the sheet a new file has), getHeaders(data[0]) (an
\* index out of range when data is empty), the header row at A1, getRows,
\* row i at A(i+2), then file.Write(w), whose error is dropped.
downloadFile(xs, t, isXlsx) ==
    IF Len(xs) = 0
    THEN [sheet |-> <<>>, tags |-> <<>>, wrote |-> FALSE,
          err |-> Panic("index out of range [0] with length 0")]
    ELSE LET headers == IF isXlsx THEN getHeadersXlsx(t) ELSE getHeaders(t)
             withHeader == SetSheetRow(<<>>, 1, headers)
             r == getRows(t, xs)
         IN  IF r.err.kind = "panic"
             THEN [sheet |-> withHeader, tags |-> headers, wrote |-> FALSE,
                   err |-> r.err]
             ELSE IF r.err.kind = "error"
             THEN [sheet |-> withHeader, tags |-> headers, wrote |-> FALSE,
                   err |-> Errorf("error getting rows: %w", r.err.args)]
             ELSE [sheet |-> SetRows(withHeader, r.rows, 1), tags |-> headers,
                   wrote |-> TRUE, err |-> NoError]

Download ==
    /\ prog \in {"api", "excelize", "call_downloadFile"} /\ pc = "download"
    /\ LET r == downloadFile(data, T, prog = "excelize")
       IN  /\ sheet' = r.sheet
           /\ tags' = r.tags
           /\ err' = r.err
           /\ CASE r.err.kind = "panic" ->
                     /\ aborted' = TRUE
                     /\ failure' = "projection"
                     /\ UNCHANGED << w, calls >>
                [] r.err.kind = "error" ->
                     /\ w' = Finish(handleError(w, StatusInternalServerError))
                     /\ calls' = calls + 1
                     /\ failure' = "projection"
                     /\ UNCHANGED aborted
                [] OTHER ->
                     /\ UNCHANGED << calls, aborted >>
                     /\ \E out \in {"ok", "marshal", "conn"} :
                          CASE out = "ok" ->
                                 /\ w' = Write(w, "xlsx")
                                 /\ UNCHANGED failure
                            [] out = "marshal" ->
                                 /\ w' = Finish(w)
                                 /\ failure' = "serialize"
                            [] OTHER ->
                                 /\ w' = Write(w, "truncated")
                                 /\ failure' = "send"
    /\ pc' = "done"
    /\ UNCHANGED << data, fetched, buf >>
    /\ UNCHANGED << constVars, goVars, onceVars >>

Next ==
    \/ Startup
    \/ Serve
    \/ CheckParam
    \/ Fetch
    \/ Headers
    \/ Rows
    \/ WriteBuffer
    \/ Send
    \/ Netflix
    \/ Download

Spec == Init /\ [][Next]_vars

\* ------------------------------------------------- addRowsWithGorutines
\* part_001 addRowsWithGorutines(sheet, shows), called on a fresh sheet: the
\* caller starts one goroutine per show and waits for the WaitGroup.  Each
\* goroutine runs sheet.AddRow(), which reads sheet.Rows and writes it back
\* with the new row appended, with no lock held: two goroutines may read the
\* same slice, and the later write then drops the earlier row.
Workers == 1..Len(data)

InitGo ==
    /\ prog = "call_addRowsWithGorutines"
    /\ T = NetflixShow
    /\ ptr = FALSE
    /\ param = TRUE
    /\ source \in SeqsOf(Elements(NetflixShow, FALSE), MaxWorkers)
    /\ data = source
    /\ pc = "rows"
    /\ tags = initFieldMetadata(NetflixShow)
    /\ sheet = <<>>
    /\ err = NoError
    /\ w = NoResponse
    /\ calls = 0
    /\ failure = "none"
    /\ fetched = FALSE
    /\ aborted = FALSE
    /\ buf = NoBuffer
    /\ env = "good"
    /\ db = "nil"
    /\ timedOut = FALSE
    /\ cancelled = FALSE
    /\ gpc = "spawn"
    /\ wpc = [k \in Workers |-> "unborn"]
    /\ snap = [k \in Workers |-> <<>>]
    /\ sheetRows = <<>>
    /\ rowCells = [k \in Workers |-> <<>>]
    /\ wg = 0

handlerVars == << pc, tags, err, w, calls, failure, fetched, aborted, buf, data,
                 db, timedOut, cancelled >>

\* `for _, show := range shows { wg.Add(1); go func(show) {...}(show) }`
Spawn ==
    /\ gpc = "spawn"
    /\ IF \E k \in Workers : wpc[k] = "unborn"
       THEN LET k == CHOOSE i \in Workers :
                        wpc[i] = "unborn" /\ \A j \in Workers : wpc[j] = "unborn" => i <= j
            IN  /\ wg' = wg + 1
                /\ wpc' = [wpc EXCEPT ![k] = "start"]
                /\ UNCHANGED gpc
       ELSE /\ gpc' = "wait"
            /\ UNCHANGED << wg, wpc >>
    /\ UNCHANGED << snap, sheetRows, rowCells, sheet, handlerVars, constVars >>

\* sheet.AddRow(), first half: the goroutine reads sheet.Rows.
AddRowRead ==
    \E k \in Workers :
        /\ wpc[k] = "start"
        /\ snap' = [snap EXCEPT ![k] = sheetRows]
        /\ wpc' = [wpc EXCEPT ![k] = "append"]
        /\ UNCHANGED << gpc, wg, sheetRows, rowCells, sheet, handlerVars, constVars >>

\* sheet.AddRow(), second half: s.Rows = append(s.Rows, row) with the slice
\* it read.
AddRowWrite ==
    \E k \in Workers :
        /\ wpc[k] = "append"
        /\ sheetRows' = Append(snap[k], k)
        /\ wpc' = [wpc EXCEPT ![k] = "cells"]
        /\ UNCHANGED << gpc, wg, snap, rowCells, sheet, handlerVars, constVars >>

\* `for i := range v.NumField() { cell := row.AddCell(); cell.Value = ... }`:
\* the goroutine fills its own row.
AddCells ==
    \E k \in Workers :
        /\ wpc[k] = "cells"
        /\ rowCells' = [rowCells EXCEPT ![k] =
                          [i \in 1..Len(T) |-> StringCell(Sprintf(T[i], data[k].sub[i]))]]
        /\ wpc' = [wpc EXCEPT ![k] = "exit"]
        /\ UNCHANGED << gpc, wg, snap, sheetRows, sheet, handlerVars, constVars >>

\* `defer wg.Done()`
WorkerDone ==
    \E k \in Workers :
        /\ wpc[k] = "exit"
        /\ wg' = wg - 1
        /\ wpc' = [wpc EXCEPT ![k] = "done"]
        /\ UNCHANGED << gpc, snap, sheetRows, rowCells, sheet, handlerVars, constVars >>

\* wg.Wait() returns once the counter is zero; the sheet then holds the rows
\* sheet.Rows points to.
Wait ==
    /\ gpc = "wait"
    /\ wg = 0
    /\ gpc' = "returned"
    /\ sheet' = [i \in 1..Len(sheetRows) |-> rowCells[sheetRows[i]]]
    /\ UNCHANGED << wpc, wg, snap, sheetRows, rowCells, handlerVars, constVars >>

NextGo ==
    \/ Spawn
    \/ Wait
    \/ AddRowRead
    \/ AddRowWrite
    \/ AddCells
    \/ WorkerDone

SpecGo == InitGo /\ [][NextGo]_vars

\* ------------------------------------------------------------------ claims
\* The flattened columns of a record type: its fields in declaration order,
\* an embedded sub-record replaced in place by its own columns, depth-first.
RECURSIVE Leaves(_)
Leaves(t) ==
    Concat([i \in 1..Len(t) |->
              IF t[i].kind = "struct" /\ t[i].anon THEN Leaves(t[i].fields)
              ELSE <<t[i]>>])

\* The values of a record at its flattened columns, in the same order.
RECURSIVE LeafValues(_, _)
LeafValues(t, x) ==
    Concat([i \in 1..Len(t) |->
              IF t[i].kind = "struct" /\ t[i].anon
              THEN LeafValues(t[i].fields, x.sub[i])
              ELSE <<x.sub[i]>>])

\* The tag a program's schema extraction reads, and whether it drops the
\* columns whose tag is empty.
TagName == IF prog \in {"api", "call_downloadFile"} THEN "json" ELSE "xlsx"
Tealeg == prog \in {"main", "call_addRows", "netflix", "call_addRowsWithGorutines"}
Skips == prog \in {"main", "call_addRows"}

\* The columns the extracted schema describes, and their count in tags.
Described ==
    LET all == Leaves(T)
    IN  IF Skips
        THEN Concat([i \in 1..Len(all) |->
                       IF all[i].tag[TagName] # "" THEN <<i>> ELSE <<>>])
        ELSE [i \in 1..Len(all) |-> i]

\* The schema extraction has run and returned into tags: getFieldTags in
\* the handler of main.go, initFieldMetadata in init(), getHeaders in
\* downloadFile once data[0] was read.
SchemaExtracted ==
    CASE prog \in {"main", "call_addRows"} ->
             pc \in {"rows", "write", "send"} \/ (pc = "done" /\ failure # "fetch")
      [] prog = "netflix" -> pc \notin {"init", "fatal"}
      [] prog = "call_addRowsWithGorutines" -> TRUE
      [] OTHER -> pc = "done" /\ failure \notin {"param", "fetch"} /\ data # <<>>

\* Projecting a record fails: it is a nil pointer, or one of its fields is
\* invalid.
ProjectionFails(x) == ~IsValid(x) \/ \E i \in 1..Len(x.sub) : ~IsValid(x.sub[i])

\* The export reached its end with every row projected.
Exported == pc = "done" /\ err.kind = "nil" /\ failure \notin {"param", "fetch"}

\* The row a program's projection makes of one record alone.
ProjectOne(x) ==
    CASE prog \in {"main", "call_addRows"} -> addRows(<<>>, T, <<x>>).sheet[1]
      [] prog = "netflix" -> addShows(<<>>, T, <<x>>).sheet[1]
      [] OTHER -> getRows(T, <<x>>).rows[1]

\* C1: every data row of an export has exactly as many cells as the header
\* row, whatever the records; stated of the handlers as they are deployed
\* (the record types Salary, NetflixShow and DATA).
C1_RowsMatchHeader ==
    (prog \in Handlers /\ Exported /\ sheet # <<>>) =>
        \A i \in 1..Len(sheet) : Len(sheet[i]) = Len(sheet[1])

\* C2: for any sequence of K records the sink holds one header row, then K
\* data rows, the i-th the projection of the i-th record; stated of the
\* handlers once the records are fetched.
C2_HeaderThenRowsInOrder ==
    (prog \in Handlers /\ pc = "done" /\ failure \notin {"param", "fetch"}
        /\ \A i \in 1..Len(data) : IsValid(data[i])) =>
        /\ Len(sheet) = 1 + Len(data)
        /\ Len(sheet[1]) = Len(tags)
        /\ \A i \in 1..Len(data) : sheet[i + 1] = ProjectOne(data[i])

\* C3: exporting an empty sequence of records succeeds: the sheet holds the
\* header row and no data row, and there is no error and no panic; stated
\* of the handlers once the (empty) fetch has succeeded.
C3_EmptyExportSucceeds ==
    (prog \in Handlers /\ pc = "done" /\ data = <<>> /\ failure \notin {"param", "fetch", "serialize", "send"}) =>
        /\ ~aborted
        /\ err.kind = "nil"
        /\ Len(sheet) = 1

\* C4: for a record type that embeds a nested record type, the schema is the
\* parent's own descriptors with the child's descriptors, one per child
\* field, spliced in at the embedding position, all in declaration order.
C4_EmbeddedSpliced ==
    (SchemaExtracted /\ \E i \in 1..Len(T) : T[i].anon) =>
        /\ Len(tags) = Len(Leaves(T))
        /\ \A i \in 1..Len(tags) :
             Leaves(T)[i].tag[TagName] # "" => tags[i] = Leaves(T)[i].tag[TagName]

\* C5: for a record type of N fields, none of them a nested record, tagged
\* or not, the schema has exactly N descriptors in declaration order, the
\* i-th with the display name of the i-th field.
C5_OneDescriptorPerField ==
    (SchemaExtracted /\ \A i \in 1..Len(T) : ~T[i].anon) =>
        /\ Len(tags) = Len(T)
        /\ \A i \in 1..Len(T) :
             T[i].tag[TagName] # "" => tags[i] = T[i].tag[TagName]

\* C6: in every data row the j-th cell is the value of the field the j-th
\* schema descriptor describes: one cell per flattened column, in the
\* header's order; stated of the handlers as they are deployed.
C6_CellsFollowSchema ==
    (prog \in Handlers /\ Exported /\ sheet # <<>>) =>
        \A r \in 2..Len(sheet) :
            LET vals == LeafValues(T, data[r - 1])
                cols == Leaves(T)
            IN  /\ Len(sheet[r]) = Len(Described)
                /\ \A j \in 1..Len(Described) :
                     j <= Len(sheet[r]) =>
                        sheet[r][j] =
                            IF Tealeg
                            THEN StringCell(Sprintf(cols[Described[j]], vals[Described[j]]))
                            ELSE vals[Described[j]]

\* C7: when addRowsWithGorutines has returned, the rows of the sheet are in
\* the order of the records.
C7_GoroutineRowsInOrder ==
    gpc = "returned" =>
        \A i, j \in 1..Len(sheetRows) : i < j => sheetRows[i] < sheetRows[j]

\* C8: no two workers are inside sheet.AddRow at the same moment.
C8_SingleWriter ==
    Cardinality({k \in Workers : wpc[k] = "append"}) <= 1

\* C9: when addRows of main.go fails on record i, the error names record i
\* and the field position, the sheet holds no data row, and nothing of the
\* spreadsheet reaches the client.
C9_FailedProjectionLeavesNothing ==
    (prog \in {"main", "call_addRows"} /\ pc = "done" /\ data # <<>>
        /\ err.kind # "nil") =>
        LET bad == {i \in 1..Len(data) : ProjectionFails(data[i])}
            first == CHOOSE i \in bad : \A j \in bad : i <= j
        IN  /\ err.kind = "error"
            /\ Len(err.args) = 2
            /\ err.args[1] = first - 1
            /\ Len(sheet) <= 1
            /\ w.status # StatusOK

\* C10: a request without the required parameter is answered 400 with no
\* fetch and no write to the sheet; a failed fetch or a failed serialization
\* is answered 500; none of them is answered 200.
C10_ErrorStatuses ==
    (pc = "done" /\ prog \in Handlers) =>
        /\ failure = "param" =>
             w.status = StatusBadRequest /\ ~fetched /\ sheet = <<>>
        /\ failure \in {"fetch", "serialize"} =>
             w.status = StatusInternalServerError


\* C11: when the fetch runs past its deadline, or the client goes away
\* during the fetch, the export stops before anything is written to the
\* sheet, the request ends answered 500, and no spreadsheet bytes, whole or
\* truncated, are written to the response.
C11_FetchDeadlineAborts ==
    (prog \in Handlers /\ (timedOut \/ cancelled)) =>
        /\ sheet = <<>>
        /\ pc = "done" => w.status = StatusInternalServerError
        /\ \A i \in 1..Len(w.body) : w.body[i] \notin {"xlsx", "truncated"}


\* The programs that declare the global database handle.
DeclaresDb == prog \in {"main", "excelize", "netflix"}

\* C12: when DATABASE_URL is unset or the database setup fails, the process
\* ends at startup: it never serves, and no handler runs while the database
\* handle is nil.
C12_StartupFatalWithoutDatabase ==
    (DeclaresDb /\ (env # "good" \/ db = "nil")) => pc \in {"init", "fatal"}

\* C13: a request returns to the pool every buffer it took from it, once,
\* on every way out of the handler (the file sent, file.Write failed,
\* buf.WriteTo failed), and never ends holding one.
C13_BufferReturnedOnce ==
    prog \in Handlers =>
        /\ buf.put <= buf.got
        /\ pc = "done" => buf.put = buf.got

\* A request that took a buffer and whose buf.WriteTo failed has ended.
C13_Witness ==
    prog = "main" /\ pc = "done" /\ buf.got = 1 /\ failure = "send"


\* The cells of a row that hold a string.
StringCells(row) == {j \in 1..Len(row) : row[j].kind = "string"}

\* The flattened columns of T whose Go type is string.
StringLeaves == {j \in 1..Len(Leaves(T)) : Leaves(T)[j].kind = "string"}

\* C14: projection hands each scalar leaf to the sheet with its own type:
\* an int stays an int, a float a float, a time.Time a time.Time, and no
\* value is made a string on the way, so a data row holds no more string
\* cells than the record has string-typed columns.
C14_CellsKeepTheirType ==
    (prog \in Handlers /\ Exported) =>
        \A r \in 2..Len(sheet) :
            Cardinality(StringCells(sheet[r])) <= Cardinality(StringLeaves)

\* C15: a request gets one outcome: handleError runs at most once, and never
\* after bytes of the spreadsheet have been written to the response.
C15_OneOutcome ==
    prog \in Handlers =>
        /\ calls <= 1
        /\ \A i, j \in 1..Len(w.body) :
             (i < j /\ w.body[i] \in {"xlsx", "truncated"}) => w.body[j] # "message"

\* C16: addRowsWithGorutines returns only when each of the K goroutines it
\* started has finished, and the sheet then holds exactly K new rows, one
\* per record, however the goroutines interleave.
C16_ReturnsWithOneRowEach ==
    gpc = "returned" =>
        /\ \A k \in Workers : wpc[k] = "done"
        /\ Len(sheet) = Len(data)
        /\ \A k \in Workers :
             Cardinality({r \in 1..Len(sheetRows) : sheetRows[r] = k}) = 1

============================================================================
